---- MODULE Spec2Model ----
(***************************************************************************)
(* Prize_Calculator: the distribution engine of PrizeDistributionApp       *)
(* (src/prize_calculator.py).  calculate_distribution and                  *)
(* calculate_integer_distribution are modelled statement by statement; the *)
(* integer correction loop is one step per iteration so that its           *)
(* intermediate states are visible.                                        *)
(*                                                                         *)
(* Numbers.  The program computes with Python floats; the model computes   *)
(* with exact rationals [n, d] (d > 0, lowest terms), so a float is        *)
(* idealised as the rational it approximates.  Quantities are multiples of *)
(* 1/2, damages are whole numbers.  The '#' marker, a Python str in a      *)
(* numeric field, is the record Hash.                                      *)
(*                                                                         *)
(* Two specifications.  Spec starts from every roster, prize and mode and  *)
(* runs one call of calculate_distribution.  AppSpec starts from the       *)
(* application as constructed and runs its handlers (add, edit, toggle,    *)
(* delete, clear, new state, save, update, restore) and the calls made     *)
(* of calculate_distribution for the distribution table.                   *)
(***************************************************************************)
EXTENDS Integers, Sequences, FiniteSets, TLC

\* ------------------------------------------------------------------ bounds
MaxParticipants == 3    \* longest roster
MaxDamage == 2          \* largest damage of a participant
MaxHalves == 9          \* largest prize quantity, in halves (9 = 4.5)
MaxId == 3              \* AppSpec: largest id next_*_id hands out
MaxBatch == 2           \* AppSpec: most lines of a batch input
MaxMonth == 2           \* months of the date fields
MaxOps == 5             \* AppSpec: handlers run in a session
MaxCalls == 2           \* AppSpec: calls of calculate_distribution logged
MaxRoster == 4          \* IntegerSpec: longest roster
MaxWhole == 6           \* IntegerSpec: largest prize quantity, a whole number
MaxScale == 3           \* largest constant the weights are multiplied by
MaxFiles == 2           \* FolderSpec: most state files in the data folder
MaxFolderOps == 4       \* FolderSpec: handlers run in a session

\* ------------------------------------------------------------ the '#' marker
\* the str '#' held in a damage or quantity field in place of a number
Hash == [str |-> "#"]

\* ---------------------------------------------------------------- rationals
RECURSIVE GCD(_, _)
GCD(a, b) == IF b = 0 THEN a ELSE GCD(b, a % b)

Abs(x) == IF x < 0 THEN -x ELSE x

\* the rational n/d in lowest terms, d > 0 (d = 0 only for Inf)
Rat(n, d) ==
    LET g == GCD(Abs(n), Abs(d))
        s == IF d < 0 THEN -1 ELSE 1
    IN  [n |-> s * (n \div g), d |-> s * (d \div g)]

FromInt(k) == [n |-> k, d |-> 1]

\* float('inf')
Inf == [n |-> 1, d |-> 0]

RatMul(a, b) == Rat(a.n * b.n, a.d * b.d)
RatSub(a, b) == Rat(a.n * b.d - b.n * a.d, a.d * b.d)
RatAdd(a, b) == Rat(a.n * b.d + b.n * a.d, a.d * b.d)
RatDiv(a, b) == Rat(a.n * b.d, a.d * b.n)
RatAbs(a) == [n |-> Abs(a.n), d |-> a.d]
RatLess(a, b) == a.n * b.d < b.n * a.d

\* Python 3 round(x) of a float: to the nearest integer, a tie to the even one
PyRound(x) ==
    LET fl  == x.n \div x.d
        rem == x.n - fl * x.d
    IN  IF 2 * rem < x.d THEN fl
        ELSE IF 2 * rem > x.d THEN fl + 1
        ELSE IF fl % 2 = 0 THEN fl ELSE fl + 1

\* Python int(x) of a float: truncation toward zero
PyInt(x) == IF x.n >= 0 THEN x.n \div x.d ELSE -((-x.n) \div x.d)

\* ------------------------------------------------------------------- state
VARIABLES
    participants,   \* self.participants: the roster, a list of Participant
    prize,          \* the Prize passed to calculate_distribution
    integer_only,   \* self.integer_only.get()
    pc,             \* "idle", "int_loop" (inside the correction loop), "done"
    shares,         \* calculate_integer_distribution: [participant, share, exact share]
    diff,           \* calculate_integer_distribution: total_assigned - total_to_distribute
    i,              \* calculate_integer_distribution: correction iterations done
    result,         \* the list calculate_distribution returned
    ret,            \* the return statement calculate_distribution left through
    int_ret,        \* the return statement calculate_integer_distribution left through
    exc,            \* the exception raised inside the call ("none" if none)
    escaped,        \* TRUE iff an exception left calculate_distribution
    prizes,               \* self.prizes: a list of Prize
    next_prize_id,        \* self.next_prize_id
    next_participant_id,  \* self.next_participant_id
    saved_states,         \* self.saved_states: a list of SavedState
    participant_created,  \* history: the id each roster object was created with
    prize_created,        \* history: the id each prize object was created with
    call_log,             \* history: the calls of calculate_distribution
    ops,                  \* history: the number of handlers run
    outcome               \* history: how the last handler ended

\* the locals of a call of calculate_distribution
callvars == <<prize, pc, shares, diff, i, result, ret, int_ret, exc, escaped>>

\* the data of the application
appvars == <<participants, prizes, next_prize_id, next_participant_id,
             saved_states, integer_only>>

histvars == <<participant_created, prize_created, call_log, ops, outcome>>

vars == <<participants, prize, integer_only, pc, shares, diff, i, result,
          ret, int_ret, exc, escaped, prizes, next_prize_id,
          next_participant_id, saved_states, participant_created,
          prize_created, call_log, ops, outcome>>

\* ------------------------------------------------------------------ inputs
Damages == {FromInt(k) : k \in 0..MaxDamage} \cup {Hash}
Quantities == {Rat(h, 2) : h \in 1..MaxHalves} \cup {Hash}

PName(k) == "P" \o ToString(k)

Participant(id, name, damage, enabled) ==
    [id |-> id, name |-> name, damage |-> damage, enabled |-> enabled]

Prize(id, name, quantity, is_special, top_winners) ==
    [id |-> id, name |-> name, quantity |-> quantity,
     is_special |-> is_special, top_winners |-> top_winners]

\* how a handler ended: kind names the way out of save_current_state or
\* update_current_state ("none" for the other handlers), idx is the position
\* in saved_states of the state it appended or replaced (0 if none)
Outcome(kind, idx) == [kind |-> kind, idx |-> idx]
NoOutcome == Outcome("none", 0)

\* ---------------------------------------------------------------- helpers
Zero == FromInt(0)

\* sum(p.damage for p in ps)
RECURSIVE SumDamage(_)
SumDamage(ps) ==
    IF ps = <<>> THEN Zero ELSE RatAdd(Head(ps).damage, SumDamage(Tail(ps)))

\* sorted(participants, key=lambda p: p.damage, reverse=True): a stable sort,
\* participants of equal damage keep their roster order
RECURSIVE InsertByDamageDesc(_, _)
InsertByDamageDesc(x, s) ==
    IF s = <<>> THEN <<x>>
    ELSE IF RatLess(Head(s).damage, x.damage) THEN <<x>> \o s
    ELSE <<Head(s)>> \o InsertByDamageDesc(x, Tail(s))

RECURSIVE SortByDamageDesc(_)
SortByDamageDesc(s) ==
    IF s = <<>> THEN <<>>
    ELSE InsertByDamageDesc(s[Len(s)], SortByDamageDesc(SubSeq(s, 1, Len(s) - 1)))

\* sorted(participants, key=lambda p: p.id): a stable sort
RECURSIVE InsertById(_, _)
InsertById(x, s) ==
    IF s = <<>> THEN <<x>>
    ELSE IF x.id < Head(s).id THEN <<x>> \o s
    ELSE <<Head(s)>> \o InsertById(x, Tail(s))

RECURSIVE SortById(_)
SortById(s) ==
    IF s = <<>> THEN <<>>
    ELSE InsertById(s[Len(s)], SortById(SubSeq(s, 1, Len(s) - 1)))

\* result.sort(key=lambda x: x[0]) on (id, name, qty) tuples: a stable sort
RECURSIVE InsertByFirst(_, _)
InsertByFirst(x, s) ==
    IF s = <<>> THEN <<x>>
    ELSE IF x[1] < Head(s)[1] THEN <<x>> \o s
    ELSE <<Head(s)>> \o InsertByFirst(x, Tail(s))

RECURSIVE SortByFirst(_)
SortByFirst(s) ==
    IF s = <<>> THEN <<>>
    ELSE InsertByFirst(s[Len(s)], SortByFirst(SubSeq(s, 1, Len(s) - 1)))

\* s[:n]
Take(s, n) == SubSeq(s, 1, IF n < Len(s) THEN n ELSE Len(s))

\* ------------------------------------------------- calculate_distribution
\* faulty variant: the enabled flag is not consulted
IsActiveIgnoringEnabled(p) == ~(p.damage = Hash)

\* p.enabled and not (isinstance(p.damage, str) and p.damage.strip() == '#')
IsActive(p) == p.enabled /\ ~(p.damage = Hash)

\* faulty variant: an enabled participant marked '#' is kept, with damage 0
ActiveParticipantsHashAsZero(ps) ==
    LET kept == SelectSeq(ps, LAMBDA p : p.enabled)
    IN  [k \in 1..Len(kept) |->
            IF kept[k].damage = Hash
            THEN [kept[k] EXCEPT !.damage = Zero]
            ELSE kept[k]]

\* active_participants (lines 3570-3573)
ActiveParticipants(ps) == SelectSeq(ps, IsActive)

\* faulty variant: the winners are the participants of highest damage
TopByDamage(active, top_winners) == Take(SortByDamageDesc(active), top_winners)

\* faulty variant: the slice [:prize.top_winners] is missing
TopNoSlice(active, top_winners) == SortById(active)

\* sorted(active_participants, key=lambda p: p.id)[:prize.top_winners]
TopParticipants(active, top_winners) == Take(SortById(active), top_winners)

\* the exceptions the bodies can raise; all are subclasses of Exception
ExceptionClasses == {"ZeroDivisionError", "TypeError", "ValueError"}

\* faulty variant: except ValueError as e
CaughtOuterValueErrorOnly(e) == e = "ValueError"

\* except Exception as e, in calculate_distribution
CaughtOuter(e) == e \in ExceptionClasses

\* except Exception as e, in calculate_integer_distribution
CaughtInner(e) == e \in ExceptionClasses

\* faulty variant: ratio = p.damage // total_damage
ShareFloorDiv(p, total_damage, quantity) ==
    LET r == RatDiv(p.damage, total_damage)
    IN  RatMul(quantity, FromInt(r.n \div r.d))

\* ratio = p.damage / total_damage;  qty = quantity * ratio
Share(p, total_damage, quantity) ==
    RatMul(quantity, RatDiv(p.damage, total_damage))

\* the exception the real-valued loop raises on its first participant
RealLoopException(total_damage, quantity) ==
    IF total_damage = Zero THEN "ZeroDivisionError"
    ELSE IF quantity = Hash THEN "TypeError"
    ELSE "none"

\* for p in ps: distribution_data.append((p.id, p.name, qty))
RealDistribution(ps, total_damage, quantity) ==
    [k \in 1..Len(ps) |->
        <<ps[k].id, ps[k].name, Share(ps[k], total_damage, quantity)>>]

\* ---------------------------------------- calculate_integer_distribution
\* faulty variant: the target is twice the quantity
TotalToDistributeDoubled(quantity) == 2 * PyInt(quantity)

\* total_to_distribute = int(quantity)
TotalToDistribute(quantity) == PyInt(quantity)

\* faulty variant: the integer above the floor, also for a whole share
RoundedAboveFloor(exact_share) == exact_share.n \div exact_share.d + 1

\* rounded = round(share[1])
Rounded(exact_share) == PyRound(exact_share)

\* shares after the first assignment: [participant, rounded, exact_share],
\* in descending order of damage
InitialShares(ps, total_damage, quantity) ==
    LET sorted == SortByDamageDesc(ps)
    IN  [k \in 1..Len(sorted) |->
            LET exact_share == Share(sorted[k], total_damage, quantity)
            IN  [p |-> sorted[k], share |-> Rounded(exact_share),
                 exact |-> exact_share]]

RECURSIVE TotalAssigned(_)
TotalAssigned(sh) ==
    IF sh = <<>> THEN 0 ELSE Head(sh).share + TotalAssigned(Tail(sh))

\* if share[1] > 0, the guard of a decrement
CanDecrement(share) == share.share > 0

\* loss = abs((share[1] - 1) - share[2])
Loss(share) == RatAbs(RatSub(FromInt(share.share - 1), share.exact))

\* faulty variant: the gain is measured before the unit is added
GainBeforeStep(share) == RatAbs(RatSub(FromInt(share.share), share.exact))

\* gain = abs((share[1] + 1) - share[2])
Gain(share) == RatAbs(RatSub(FromInt(share.share + 1), share.exact))

\* faulty variant: the first participant that can give a unit is taken,
\* whatever its loss
RECURSIVE ScanLossAny(_, _, _, _)
ScanLossAny(sh, j, min_loss, min_idx) ==
    IF j > Len(sh) THEN min_idx
    ELSE IF CanDecrement(sh[j]) /\ min_idx = 0
         THEN ScanLossAny(sh, j + 1, Loss(sh[j]), j)
         ELSE ScanLossAny(sh, j + 1, min_loss, min_idx)

\* the inner scan of a decrement: min_idx after visiting shares j..end
\* (0 stands for Python's -1)
RECURSIVE ScanLoss(_, _, _, _)
ScanLoss(sh, j, min_loss, min_idx) ==
    IF j > Len(sh) THEN min_idx
    ELSE IF CanDecrement(sh[j]) /\ RatLess(Loss(sh[j]), min_loss)
         THEN ScanLoss(sh, j + 1, Loss(sh[j]), j)
         ELSE ScanLoss(sh, j + 1, min_loss, min_idx)

\* faulty variant: among equal gains the last participant scanned is taken
RECURSIVE ScanGainLast(_, _, _, _)
ScanGainLast(sh, j, min_gain, min_idx) ==
    IF j > Len(sh) THEN min_idx
    ELSE IF ~RatLess(min_gain, Gain(sh[j]))
         THEN ScanGainLast(sh, j + 1, Gain(sh[j]), j)
         ELSE ScanGainLast(sh, j + 1, min_gain, min_idx)

\* the inner scan of an increment
RECURSIVE ScanGain(_, _, _, _)
ScanGain(sh, j, min_gain, min_idx) ==
    IF j > Len(sh) THEN min_idx
    ELSE IF RatLess(Gain(sh[j]), min_gain)
         THEN ScanGain(sh, j + 1, Gain(sh[j]), j)
         ELSE ScanGain(sh, j + 1, min_gain, min_idx)

\* faulty variant: the correction is applied with the wrong sign
AdjustWrongSign(sh, min_idx, delta) ==
    IF min_idx >= 1
    THEN [sh EXCEPT ![min_idx].share = sh[min_idx].share - delta]
    ELSE sh

\* if min_idx >= 0: shares[min_idx][1] += delta
Adjust(sh, min_idx, delta) ==
    IF min_idx >= 1
    THEN [sh EXCEPT ![min_idx].share = sh[min_idx].share + delta]
    ELSE sh

\* result = [(p.id, p.name, qty) for p, qty, _ in shares]; result.sort(key=id)
IntegerResult(sh) ==
    SortByFirst([k \in 1..Len(sh) |->
                    <<sh[k].p.id, sh[k].p.name, FromInt(sh[k].share)>>])

\* faulty variant: an iteration leaves the shares as they are
CorrectionStepSkipped(sh, d) == sh

\* one iteration of "for i in range(abs(diff))": a decrement when too much
\* was assigned, an increment when too little was
CorrectionStep(sh, d) ==
    IF d > 0
    THEN Adjust(sh, ScanLoss(sh, 1, Inf, 0), -1)
    ELSE Adjust(sh, ScanGain(sh, 1, Inf, 0), 1)

\* the shares after iterations k+1 .. abs(diff) of the correction loop
RECURSIVE Corrected(_, _, _)
Corrected(sh, d, k) ==
    IF k >= Abs(d) THEN sh ELSE Corrected(CorrectionStep(sh, d), d, k + 1)

\* ------------------------------------------------ the call, as an outcome
\* calculate_distribution returns res through the return statement r
Returned(res, r, ir, e) ==
    [kind |-> "return", result |-> res, ret |-> r, int_ret |-> ir,
     exc |-> e, escaped |-> FALSE, shares |-> <<>>, diff |-> 0]

\* an exception e reaches the handler of calculate_distribution (3613-3619)
RaisedOuter(e, ir) ==
    IF CaughtOuter(e)
    THEN Returned(<<>>, "except", ir, e)
    ELSE [kind |-> "return", result |-> <<>>, ret |-> "raise", int_ret |-> ir,
          exc |-> e, escaped |-> TRUE, shares |-> <<>>, diff |-> 0]

\* the real-valued loop over ps
RealBranch(ps, total_damage, quantity) ==
    LET e == RealLoopException(total_damage, quantity)
    IN  IF e # "none"
        THEN RaisedOuter(e, "none")
        ELSE Returned(RealDistribution(ps, total_damage, quantity),
                      "data", "none", "none")

\* if not participants or total_damage == 0 (line 4311)
IntegerGuard(ps, total_damage) == ps = <<>> \/ total_damage = Zero

\* calculate_integer_distribution(ps, total_damage, quantity), up to the
\* start of the correction loop; int('#') raises ValueError
IntegerBranch(ps, total_damage, quantity) ==
    IF IntegerGuard(ps, total_damage)
    THEN Returned(<<>>, "data", "guard", "none")
    ELSE IF quantity = Hash
    THEN IF CaughtInner("ValueError")
         THEN Returned(<<>>, "data", "except", "ValueError")
         ELSE RaisedOuter("ValueError", "raise")
    ELSE LET sh == InitialShares(ps, total_damage, quantity)
         IN  [kind |-> "loop", result |-> <<>>, ret |-> "none",
              int_ret |-> "none", exc |-> "none", escaped |-> FALSE,
              shares |-> sh,
              diff |-> TotalAssigned(sh) - TotalToDistribute(quantity)]

\* faulty variant: a flag left by an earlier call empties the result
NoActiveOnRepeat(active_participants) ==
    active_participants = <<>> \/ call_log # <<>>

\* if not active_participants (line 3574)
NoActive(active_participants) == active_participants = <<>>

\* faulty variant: the guard on a zero total is missing
ZeroTotalUnguarded(total_damage) == FALSE

\* faulty variant: a total below 2 is taken for a zero total
ZeroTotalBelowTwo(total_damage) == RatLess(total_damage, FromInt(2))

\* if total_damage == 0 (line 3578)
ZeroTotal(total_damage) == total_damage = Zero

\* faulty variant: the total of all the active participants is kept
WinnerTotalDamageOverAll(top_participants, total_damage) == total_damage

\* winner_total_damage = sum(p.damage for p in top_participants); the
\* total_damage of all the active participants is in scope and not used
WinnerTotalDamage(top_participants, total_damage) == SumDamage(top_participants)

\* calculate_distribution(pz) on the roster ps with integer_only = io, up
\* to its return or to the start of the correction loop
Call(ps, pz, io) ==
    LET active_participants == ActiveParticipants(ps)
        total_damage == SumDamage(active_participants)
    IN  IF NoActive(active_participants)
        THEN Returned(<<>>, "no_active", "none", "none")
        ELSE IF ZeroTotal(total_damage)
        THEN Returned(<<>>, "zero_total", "none", "none")
        ELSE IF pz.is_special
        THEN LET top_participants ==
                     TopParticipants(active_participants, pz.top_winners)
                 winner_total_damage ==
                     WinnerTotalDamage(top_participants, total_damage)
             IN  IF io
                 THEN IntegerBranch(top_participants, winner_total_damage,
                                    pz.quantity)
                 ELSE RealBranch(top_participants, winner_total_damage,
                                 pz.quantity)
        ELSE IF io
             THEN IntegerBranch(active_participants, total_damage, pz.quantity)
             ELSE RealBranch(SortById(active_participants), total_damage,
                             pz.quantity)

\* the list calculate_distribution(pz) returns
Distribute(ps, pz, io) ==
    LET o == Call(ps, pz, io)
    IN  IF o.kind = "return"
        THEN o.result
        ELSE IntegerResult(Corrected(o.shares, o.diff, 0))

\* ----------------------------------------------------------------- actions
\* history: a call with its arguments, the roster and the mode it read, the
\* list it returned and the number of handlers run before it
CallRecord(res) ==
    [participants |-> participants, prize |-> prize,
     integer_only |-> integer_only, result |-> res, ops |-> ops]

\* faulty variant: the roster is filtered in place, the participants that
\* are not active leave self.participants
CalculateDistributionFiltering ==
    /\ pc = "idle"
    /\ \E o \in {Call(participants, prize, integer_only)} :
           /\ pc' = IF o.kind = "return" THEN "done" ELSE "int_loop"
           /\ result' = o.result
           /\ ret' = o.ret
           /\ int_ret' = o.int_ret
           /\ exc' = o.exc
           /\ escaped' = o.escaped
           /\ shares' = o.shares
           /\ diff' = o.diff
           /\ i' = 0
           /\ call_log' = IF o.kind = "return"
                          THEN Append(call_log, CallRecord(o.result))
                          ELSE call_log
    /\ participants' = ActiveParticipants(participants)
    /\ UNCHANGED <<prize, prizes, next_prize_id, next_participant_id,
                   saved_states, integer_only, participant_created,
                   prize_created, ops, outcome>>

\* calculate_distribution(prize), up to its return or to the correction loop
CalculateDistribution ==
    /\ pc = "idle"
    /\ \E o \in {Call(participants, prize, integer_only)} :
           /\ pc' = IF o.kind = "return" THEN "done" ELSE "int_loop"
           /\ result' = o.result
           /\ ret' = o.ret
           /\ int_ret' = o.int_ret
           /\ exc' = o.exc
           /\ escaped' = o.escaped
           /\ shares' = o.shares
           /\ diff' = o.diff
           /\ i' = 0
           /\ call_log' = IF o.kind = "return"
                          THEN Append(call_log, CallRecord(o.result))
                          ELSE call_log
    /\ UNCHANGED <<prize, appvars, participant_created, prize_created, ops,
                   outcome>>

\* one iteration of "for i in range(abs(diff))" when diff > 0 (4335-4346)
IntegerDecrement ==
    /\ pc = "int_loop"
    /\ diff > 0
    /\ i < Abs(diff)
    /\ shares' = CorrectionStep(shares, diff)
    /\ i' = i + 1
    /\ UNCHANGED <<prize, pc, diff, result, ret, int_ret, exc, escaped,
                   appvars, histvars>>

\* one iteration of "for i in range(abs(diff))" when diff < 0 (4348-4358)
IntegerIncrement ==
    /\ pc = "int_loop"
    /\ diff < 0
    /\ i < Abs(diff)
    /\ shares' = CorrectionStep(shares, diff)
    /\ i' = i + 1
    /\ UNCHANGED <<prize, pc, diff, result, ret, int_ret, exc, escaped,
                   appvars, histvars>>

\* the end of calculate_integer_distribution (4360-4364) and the return of
\* its list by calculate_distribution (3611)
IntegerReturn ==
    /\ pc = "int_loop"
    /\ i = Abs(diff)
    /\ pc' = "done"
    /\ result' = IntegerResult(shares)
    /\ ret' = "data"
    /\ int_ret' = "result"
    /\ exc' = "none"
    /\ escaped' = FALSE
    /\ call_log' = Append(call_log, CallRecord(IntegerResult(shares)))
    /\ UNCHANGED <<prize, shares, diff, i, appvars, participant_created,
                   prize_created, ops, outcome>>

\* ------------------------------------------------------------ specification
\* The rosters the application can hold when a distribution is computed.
\* add_participants numbers the participants 1, 2, ... in roster order
\* (lines 3429-3435); every damage, '#' and enabled flag can be entered.
CreatedRosters ==
    UNION {
        {[k \in 1..n |-> Participant(k, PName(k), dmg[k], en[k])] :
            dmg \in [1..n -> Damages],
            en \in [1..n -> BOOLEAN]} :
        n \in 0..MaxParticipants}

\* update_current_state renumbers the working participants that the saved
\* state does not hold, all to the same id, and appends the missing ones
\* (lines 4866-4888): ids are then neither in roster order nor distinct.
\* These rosters are taken with positive damages.
RenumberedRosters ==
    UNION {
        {[k \in 1..n |-> Participant(ids[k], PName(k), FromInt(dmg[k]), en[k])] :
            ids \in [1..n -> 1..n],
            dmg \in [1..n -> 1..MaxDamage],
            en \in [1..n -> BOOLEAN]} :
        n \in 2..MaxParticipants}

Rosters == CreatedRosters \cup RenumberedRosters

Prizes ==
    {Prize(1, "Prize", q, FALSE, 1) : q \in Quantities}
    \cup {Prize(1, "Prize", q, TRUE, w) :
            q \in Quantities, w \in 1..MaxParticipants}

Init ==
    /\ participants \in Rosters
    /\ prize \in Prizes
    /\ integer_only \in BOOLEAN
    /\ pc = "idle"
    /\ shares = <<>>
    /\ diff = 0
    /\ i = 0
    /\ result = <<>>
    /\ ret = "none"
    /\ int_ret = "none"
    /\ exc = "none"
    /\ escaped = FALSE
    /\ prizes = <<prize>>
    /\ next_prize_id = prize.id + 1
    /\ next_participant_id = Len(participants) + 1
    /\ saved_states = <<>>
    /\ participant_created = [k \in 1..Len(participants) |-> participants[k].id]
    /\ prize_created = <<prize.id>>
    /\ call_log = <<>>
    /\ ops = 0
    /\ outcome = NoOutcome

Next ==
    \/ CalculateDistribution
    \/ IntegerDecrement
    \/ IntegerIncrement
    \/ IntegerReturn

Spec == Init /\ [][Next]_vars

\* ------------------------------------------- integer mode, longer rosters
\* Rosters as add_participants numbers them, all enabled, of up to
\* MaxRoster participants, and prizes of whole quantity, in integer mode:
\* the rosters on which the correction loop runs more than one iteration.
IntegerRosters ==
    UNION {
        {[k \in 1..n |-> Participant(k, PName(k), FromInt(dmg[k]), TRUE)] :
            dmg \in [1..n -> 0..MaxDamage]} :
        n \in 1..MaxRoster}

WholePrizes ==
    {Prize(1, "Prize", FromInt(q), FALSE, 1) : q \in 1..MaxWhole}
    \cup {Prize(1, "Prize", FromInt(q), TRUE, w) :
            q \in 1..MaxWhole, w \in 1..MaxRoster}

IntegerInit ==
    /\ participants \in IntegerRosters
    /\ prize \in WholePrizes
    /\ integer_only = TRUE
    /\ pc = "idle"
    /\ shares = <<>>
    /\ diff = 0
    /\ i = 0
    /\ result = <<>>
    /\ ret = "none"
    /\ int_ret = "none"
    /\ exc = "none"
    /\ escaped = FALSE
    /\ prizes = <<prize>>
    /\ next_prize_id = prize.id + 1
    /\ next_participant_id = Len(participants) + 1
    /\ saved_states = <<>>
    /\ participant_created = [k \in 1..Len(participants) |-> participants[k].id]
    /\ prize_created = <<prize.id>>
    /\ call_log = <<>>
    /\ ops = 0
    /\ outcome = NoOutcome

IntegerSpec == IntegerInit /\ [][Next]_vars

\* =========================================================== the application
\* The handlers of PrizeDistributionApp.  The entry fields a handler reads
\* (event name, date fields, names, numbers) and the answers to its dialogs
\* are its inputs.  A handler that returns without changing anything takes
\* no step, save_current_state excepted: every way it ends is a step, and
\* outcome records it.
\* ------------------------------------------------------------------ inputs
AppNames == {"Ann", "Bob", "ann"}
AppDamages == {FromInt(0), FromInt(1), Hash}
PrizeNames == {"Gem"}
AppQuantities == {FromInt(1), Hash}
EventNames == {"Raid", "Hunt"}
EventInputs == {""} \cup EventNames

\* no prize: the value of prize outside a call
NoPrize == Prize(0, "", Hash, FALSE, 1)

\* ------------------------------------------------------------------- dates
\* a DateRange, reduced to its months within one year; 0 for None
DateRange(start_month, end_month) ==
    [start_month |-> start_month, end_month |-> end_month]

\* the value validate_date_range and the handlers use for "no date range"
NoDate == DateRange(0, 0)

\* the contents of the start month and end month fields; 0 for empty
DateFields == {DateRange(sm, em) : sm \in 0..MaxMonth, em \in 0..MaxMonth}

\* the month a range ends in: end_month or start_month
EndMonth(dr) == IF dr.end_month = 0 THEN dr.start_month ELSE dr.end_month

\* DateRange.is_valid
IsValid(dr) == dr.end_month = 0 \/ dr.start_month <= EndMonth(dr)

\* DateRange.overlaps
Overlaps(a, b) ==
    ~(EndMonth(a) < b.start_month \/ a.start_month > EndMonth(b))

\* validate_date_range: NoDate for a missing start month or an invalid range
ValidateDateRange(fields) ==
    IF fields.start_month = 0 THEN NoDate
    ELSE IF ~IsValid(fields) THEN NoDate
    ELSE fields

\* ----------------------------------------------------------- list helpers
\* max(p.id for p in s), s not empty
MaxIdOf(s) == CHOOSE m \in {s[k].id : k \in 1..Len(s)} :
                  \A k \in 1..Len(s) : s[k].id <= m

\* the ids of a list, in order
IdsOf(s) == [k \in 1..Len(s) |-> s[k].id]

\* the least element of a set of numbers that is not empty
Least(S) == CHOOSE k \in S : \A j \in S : k <= j

\* the index of the first element of s called name, 0 if there is none
\* (next((p for p in s if p.name == name), None))
IndexByName(s, name) ==
    LET S == {k \in 1..Len(s) : s[k].name = name}
    IN  IF S = {} THEN 0 ELSE Least(S)

\* the index of the first element of s with the id, 0 if there is none
\* (next((p for p in s if p.id == id), None))
IndexById(s, id) ==
    LET S == {k \in 1..Len(s) : s[k].id = id}
    IN  IF S = {} THEN 0 ELSE Least(S)

\* the index of the last element of s with the id, 0 if there is none
LastIndexById(s, id) ==
    LET S == {k \in 1..Len(s) : s[k].id = id}
    IN  IF S = {} THEN 0 ELSE CHOOSE k \in S : \A j \in S : j <= k

\* the elements of s at the positions of K, in order
RECURSIVE KeepUpTo(_, _, _)
KeepUpTo(s, K, n) ==
    IF n = 0 THEN <<>>
    ELSE IF n \in K THEN Append(KeepUpTo(s, K, n - 1), s[n])
    ELSE KeepUpTo(s, K, n - 1)

Keep(s, K) == KeepUpTo(s, K, Len(s))

\* str.lower() on the names entered
Lower(name) ==
    CASE name = "Ann" -> "ann"
      [] name = "Bob" -> "bob"
      [] name = "Gem" -> "gem"
      [] OTHER -> name

\* check_name_exists: some element of s has the name, ignoring case
NameExists(s, name) == \E k \in 1..Len(s) : Lower(s[k].name) = Lower(name)

\* ------------------------------------------------------- the handler frame
\* the event loop is idle: no call of calculate_distribution is running
GuiIdle == pc \in {"ready", "done"}

\* a handler runs: the locals of the last call are gone
Handler ==
    /\ GuiIdle
    /\ ops < MaxOps
    /\ ops' = ops + 1
    /\ pc' = "ready"
    /\ prize' = NoPrize
    /\ shares' = <<>>
    /\ diff' = 0
    /\ i' = 0
    /\ result' = <<>>
    /\ ret' = "none"
    /\ int_ret' = "none"
    /\ exc' = "none"
    /\ escaped' = FALSE

\* ------------------------------------- add_participants and add_prizes
\* the saved state the add handlers look for: the first one of the event
\* whose dates overlap the dates entered; 0 if none
LoadIndex(event_name, fields) ==
    LET date_range == ValidateDateRange(fields)
        S == {k \in 1..Len(saved_states) :
                 /\ saved_states[k].event = event_name
                 /\ Overlaps(saved_states[k].date_range, date_range)}
    IN  IF event_name = "" \/ date_range = NoDate \/ S = {} THEN 0
        ELSE Least(S)

\* the lists and counters after the automatic load of the add handlers: the
\* saved state is copied when both working lists are empty
AutoLoad(event_name, fields) ==
    LET k == LoadIndex(event_name, fields)
    IN  IF k # 0 /\ participants = <<>> /\ prizes = <<>>
        THEN LET st == saved_states[k]
             IN  [loaded |-> TRUE,
                  participants |-> st.participants,
                  prizes |-> st.prizes,
                  next_participant_id |->
                      IF st.participants # <<>>
                      THEN MaxIdOf(st.participants) + 1
                      ELSE next_participant_id,
                  next_prize_id |->
                      IF st.prizes # <<>>
                      THEN MaxIdOf(st.prizes) + 1
                      ELSE next_prize_id,
                  participant_created |-> IdsOf(st.participants),
                  prize_created |-> IdsOf(st.prizes)]
        ELSE [loaded |-> FALSE,
              participants |-> participants,
              prizes |-> prizes,
              next_participant_id |-> next_participant_id,
              next_prize_id |-> next_prize_id,
              participant_created |-> participant_created,
              prize_created |-> prize_created]

\* the lines entered: one in single mode, up to MaxBatch in batch mode
ParticipantLines == [name : AppNames, damage : AppDamages]

ParticipantEntries ==
    UNION {[1..n -> ParticipantLines] : n \in 1..MaxBatch}

PrizeLines ==
    [name : PrizeNames, quantity : AppQuantities, is_special : BOOLEAN,
     top_winners : {1}]

PrizeEntries == UNION {[1..n -> PrizeLines] : n \in 1..MaxBatch}

\* the lines are added in turn; a line whose name exists is refused
RECURSIVE AddedParticipants(_, _, _, _)
AddedParticipants(ps, created, next_id, lines) ==
    IF lines = <<>>
    THEN [participants |-> ps, participant_created |-> created,
          next_participant_id |-> next_id]
    ELSE IF NameExists(ps, Head(lines).name)
    THEN AddedParticipants(ps, created, next_id, Tail(lines))
    ELSE AddedParticipants(
             Append(ps, Participant(next_id, Head(lines).name,
                                    Head(lines).damage, TRUE)),
             Append(created, next_id), next_id + 1, Tail(lines))

RECURSIVE AddedPrizes(_, _, _, _)
AddedPrizes(pzs, created, next_id, lines) ==
    IF lines = <<>>
    THEN [prizes |-> pzs, prize_created |-> created, next_prize_id |-> next_id]
    ELSE IF NameExists(pzs, Head(lines).name)
    THEN AddedPrizes(pzs, created, next_id, Tail(lines))
    ELSE AddedPrizes(
             Append(pzs, Prize(next_id, Head(lines).name,
                               Head(lines).quantity, Head(lines).is_special,
                               IF Head(lines).is_special
                               THEN Head(lines).top_winners ELSE 1)),
             Append(created, next_id), next_id + 1, Tail(lines))

\* add_participants: the automatic load, then the lines entered
AddParticipants ==
    /\ Handler
    /\ \E l \in {AutoLoad(event_name, fields) :
                     event_name \in EventInputs, fields \in DateFields} :
       \E a \in {AddedParticipants(l.participants, l.participant_created,
                                   l.next_participant_id, lines) :
                     lines \in ParticipantEntries} :
           /\ l.loaded \/ a.participants # participants
           /\ a.next_participant_id <= MaxId + 1
           /\ participants' = a.participants
           /\ participant_created' = a.participant_created
           /\ next_participant_id' = a.next_participant_id
           /\ prizes' = l.prizes
           /\ prize_created' = l.prize_created
           /\ next_prize_id' = l.next_prize_id
    /\ UNCHANGED <<saved_states, integer_only, call_log>>
    /\ outcome' = NoOutcome

\* add_prizes: the automatic load, then the lines entered
AddPrizes ==
    /\ Handler
    /\ \E l \in {AutoLoad(event_name, fields) :
                     event_name \in EventInputs, fields \in DateFields} :
       \E a \in {AddedPrizes(l.prizes, l.prize_created, l.next_prize_id,
                             lines) : lines \in PrizeEntries} :
           /\ l.loaded \/ a.prizes # prizes
           /\ a.next_prize_id <= MaxId + 1
           /\ prizes' = a.prizes
           /\ prize_created' = a.prize_created
           /\ next_prize_id' = a.next_prize_id
           /\ participants' = l.participants
           /\ participant_created' = l.participant_created
           /\ next_participant_id' = l.next_participant_id
    /\ UNCHANGED <<saved_states, integer_only, call_log>>
    /\ outcome' = NoOutcome

\* ------------------------------------------------- edit, toggle, delete
\* edit_participant and its save_changes: the first participant with the id
EditParticipant ==
    /\ Handler
    /\ \E participant_id \in {participants[k].id : k \in 1..Len(participants)} :
       \E new_name \in AppNames : \E damage \in AppDamages :
       \E enabled \in BOOLEAN :
       \E k \in {IndexById(participants, participant_id)} :
           /\ ~(new_name # participants[k].name
                  /\ NameExists(participants, new_name))
           /\ participants' =
                  [participants EXCEPT ![k].name = new_name,
                                       ![k].damage = damage,
                                       ![k].enabled = enabled]
           /\ participants' # participants
    /\ UNCHANGED <<prizes, next_prize_id, next_participant_id, saved_states,
                   integer_only, participant_created, prize_created,
                   call_log>>
    /\ outcome' = NoOutcome

\* edit_prize and its save_changes: the first prize with the id
EditPrize ==
    /\ Handler
    /\ \E prize_id \in {prizes[k].id : k \in 1..Len(prizes)} :
       \E line \in PrizeLines :
       \E k \in {IndexById(prizes, prize_id)} :
           /\ ~(line.name # prizes[k].name /\ NameExists(prizes, line.name))
           /\ prizes' =
                  [prizes EXCEPT ![k].name = line.name,
                                 ![k].quantity = line.quantity,
                                 ![k].is_special = line.is_special,
                                 ![k].top_winners =
                                     IF line.is_special
                                     THEN line.top_winners ELSE 1]
           /\ prizes' # prizes
    /\ UNCHANGED <<participants, next_prize_id, next_participant_id,
                   saved_states, integer_only, participant_created,
                   prize_created, call_log>>
    /\ outcome' = NoOutcome

\* toggle_participant: the first participant with the id
ToggleParticipant ==
    /\ Handler
    /\ \E participant_id \in {participants[k].id : k \in 1..Len(participants)} :
       \E k \in {IndexById(participants, participant_id)} :
           participants' =
               [participants EXCEPT ![k].enabled = ~participants[k].enabled]
    /\ UNCHANGED <<prizes, next_prize_id, next_participant_id, saved_states,
                   integer_only, participant_created, prize_created,
                   call_log>>
    /\ outcome' = NoOutcome

\* delete_participant, confirmed: every participant with the id goes
DeleteParticipant ==
    /\ Handler
    /\ \E participant_id \in {participants[k].id : k \in 1..Len(participants)} :
       \E K \in {{k \in 1..Len(participants) :
                     participants[k].id # participant_id}} :
           /\ participants' = Keep(participants, K)
           /\ participant_created' = Keep(participant_created, K)
    /\ UNCHANGED <<prizes, next_prize_id, next_participant_id, saved_states,
                   integer_only, prize_created, call_log>>
    /\ outcome' = NoOutcome

\* delete_prize, confirmed: every prize with the id goes
DeletePrize ==
    /\ Handler
    /\ \E prize_id \in {prizes[k].id : k \in 1..Len(prizes)} :
       \E K \in {{k \in 1..Len(prizes) : prizes[k].id # prize_id}} :
           /\ prizes' = Keep(prizes, K)
           /\ prize_created' = Keep(prize_created, K)
    /\ UNCHANGED <<participants, next_prize_id, next_participant_id,
                   saved_states, integer_only, participant_created,
                   call_log>>
    /\ outcome' = NoOutcome

\* ------------------------------------------------------ clear, new state
\* clear_prizes, confirmed
ClearPrizes ==
    /\ Handler
    /\ prizes # <<>>
    /\ prizes' = <<>>
    /\ prize_created' = <<>>
    /\ next_prize_id' = 1
    /\ UNCHANGED <<participants, next_participant_id, saved_states,
                   integer_only, participant_created, call_log>>
    /\ outcome' = NoOutcome

\* clear_participants, confirmed
ClearParticipants ==
    /\ Handler
    /\ participants # <<>>
    /\ participants' = <<>>
    /\ participant_created' = <<>>
    /\ next_participant_id' = 1
    /\ UNCHANGED <<prizes, next_prize_id, saved_states, integer_only,
                   prize_created, call_log>>
    /\ outcome' = NoOutcome

\* new_state, confirmed when there is something to lose
NewState ==
    /\ Handler
    /\ \/ prizes # <<>> \/ participants # <<>>
       \/ next_prize_id # 1 \/ next_participant_id # 1
    /\ prizes' = <<>>
    /\ participants' = <<>>
    /\ next_prize_id' = 1
    /\ next_participant_id' = 1
    /\ participant_created' = <<>>
    /\ prize_created' = <<>>
    /\ UNCHANGED <<saved_states, integer_only, call_log>>
    /\ outcome' = NoOutcome

\* ------------------------------------------------------- backup, restore
\* the backup files of the data folder: what create_backup wrote, in this
\* session or an earlier one, of working lists filled by the add handlers
BackupFiles ==
    {[prizes |-> <<Prize(1, "Gem", FromInt(3), FALSE, 1)>>,
      participants |-> <<Participant(1, name, FromInt(damage), TRUE)>>] :
         <<name, damage>> \in {<<"Ann", 0>>, <<"Bob", 1>>}}

\* perform_restore(backup_file): the lists of the file replace the working
\* lists, and the counters follow the largest id
PerformRestore ==
    /\ Handler
    /\ \E backup \in BackupFiles :
           /\ prizes' = backup.prizes
           /\ next_prize_id' = IF backup.prizes # <<>>
                               THEN MaxIdOf(backup.prizes) + 1 ELSE 1
           /\ participants' = backup.participants
           /\ next_participant_id' =
                  IF backup.participants # <<>>
                  THEN MaxIdOf(backup.participants) + 1 ELSE 1
           /\ participant_created' = IdsOf(backup.participants)
           /\ prize_created' = IdsOf(backup.prizes)
    /\ UNCHANGED <<saved_states, integer_only, call_log>>
    /\ outcome' = NoOutcome

\* ---------------------------------------------------- update_distribution
\* update_distribution, run by the prize selector or, after it has flipped
\* integer_only, by the check box: it calls calculate_distribution for the
\* prize selected, if there is one and the roster is not empty
UpdateDistribution ==
    /\ GuiIdle
    /\ ops < MaxOps
    /\ Len(call_log) < MaxCalls
    /\ ops' = ops + 1
    /\ \E by_check_box \in BOOLEAN :
       \E selected \in {0} \cup {prizes[k].id : k \in 1..Len(prizes)} :
           /\ integer_only' = IF by_check_box THEN ~integer_only
                              ELSE integer_only
           /\ IF selected = 0 \/ participants = <<>>
              THEN /\ by_check_box
                   /\ pc' = "ready"
                   /\ prize' = NoPrize
              ELSE /\ pc' = "idle"
                   /\ prize' = prizes[IndexById(prizes, selected)]
    /\ shares' = <<>>
    /\ diff' = 0
    /\ i' = 0
    /\ result' = <<>>
    /\ ret' = "none"
    /\ int_ret' = "none"
    /\ exc' = "none"
    /\ escaped' = FALSE
    /\ UNCHANGED <<participants, prizes, next_prize_id, next_participant_id,
                   saved_states, participant_created, prize_created,
                   call_log>>
    /\ outcome' = NoOutcome

\* ------------------------------------------------------ save_current_state
SavedState(date_range, event, pzs, ps, distributions, total_damage) ==
    [date_range |-> date_range, event |-> event, prizes |-> pzs,
     participants |-> ps, distributions |-> distributions,
     total_damage |-> total_damage]

\* sum(p.damage for p in ps) raises TypeError when a damage is '#'
SumRaises(ps) == \E k \in 1..Len(ps) : ps[k].damage = Hash

\* the loop of lines 6108-6112 unpacks every entry (id, name, qty) of a
\* distribution into (name, qty), which raises ValueError: it ends without
\* an exception only when every distribution is empty
UnpackRaises ==
    \E k \in 1..Len(prizes) :
        Distribute(participants, prizes[k], integer_only) # <<>>

\* all_distributions of save_current_state once the loop has ended
EmptyDistributions ==
    [prize_id \in {prizes[k].id : k \in 1..Len(prizes)} |-> <<>>]

\* len(event_name) for the event names entered
NameLength(event_name) ==
    CASE event_name = "" -> 0
      [] event_name = "ab" -> 2
      [] OTHER -> 4

\* the contents of the event field when save_current_state runs
SaveEventInputs == EventInputs \cup {"ab"}

\* update_history_table formats every saved state (no history filter is
\* selected): format_damage_lines divides each damage of a state by its
\* total_damage when that is positive, a TypeError for the damage '#' that
\* update_history_table raises again
HistoryRaises(states) ==
    \E k \in 1..Len(states) :
        /\ RatLess(Zero, states[k].total_damage)
        /\ \E j \in 1..Len(states[k].participants) :
               states[k].participants[j].damage = Hash

\* the way save_current_state ends and the lists it leaves: the validations
\* in their order, then the distributions, the sum of the damages and the
\* file, then the append, the refresh of the history and the emptying of
\* the working lists; "except Exception" ends the handler wherever an
\* exception is raised
SaveOutcome(event_name, fields, file_written) ==
    LET date_range == ValidateDateRange(fields)
        appended ==
            Append(saved_states,
                   SavedState(date_range, event_name, prizes, participants,
                              EmptyDistributions, SumDamage(participants)))
        Left(kind, states, emptied) ==
            [outcome |-> Outcome(kind, IF states = saved_states THEN 0
                                       ELSE Len(states)),
             saved_states |-> states,
             prizes |-> IF emptied THEN <<>> ELSE prizes,
             participants |-> IF emptied THEN <<>> ELSE participants,
             prize_created |-> IF emptied THEN <<>> ELSE prize_created,
             participant_created |->
                 IF emptied THEN <<>> ELSE participant_created]
    IN  IF NameLength(event_name) < 3
        THEN Left("save_rejected", saved_states, FALSE)
        ELSE IF fields.start_month = 0
        THEN Left("save_rejected", saved_states, FALSE)
        ELSE IF prizes = <<>> \/ participants = <<>>
        THEN Left("save_rejected", saved_states, FALSE)
        ELSE IF date_range = NoDate
        THEN Left("save_rejected", saved_states, FALSE)
        ELSE IF \E k \in 1..Len(saved_states) :
                    saved_states[k].event = event_name
        THEN Left("save_rejected", saved_states, FALSE)
        ELSE IF UnpackRaises \/ SumRaises(participants)
        THEN Left("save_error", saved_states, FALSE)
        ELSE IF ~file_written
        THEN Left("save_io_error", saved_states, FALSE)
        ELSE IF HistoryRaises(appended)
        THEN Left("save_error", appended, FALSE)
        ELSE Left("saved", appended, TRUE)

\* save_current_state
SaveCurrentState ==
    /\ Handler
    /\ \E o \in {SaveOutcome(event_name, fields, file_written) :
                     event_name \in SaveEventInputs, fields \in DateFields,
                     file_written \in BOOLEAN} :
           /\ outcome' = o.outcome
           /\ saved_states' = o.saved_states
           /\ prizes' = o.prizes
           /\ participants' = o.participants
           /\ prize_created' = o.prize_created
           /\ participant_created' = o.participant_created
    /\ UNCHANGED <<next_prize_id, next_participant_id, integer_only,
                   call_log>>

\* ---------------------------------------------------- update_current_state
\* the saved state of the event with exactly the dates entered; 0 if none
ExistingIndex(event_name, fields) ==
    LET date_range == ValidateDateRange(fields)
        S == {k \in 1..Len(saved_states) :
                 /\ saved_states[k].event = event_name
                 /\ saved_states[k].date_range = date_range}
    IN  IF event_name = "" \/ date_range = NoDate \/ S = {} THEN 0
        ELSE Least(S)

NamesOf(s) == {s[k].name : k \in 1..Len(s)}

\* the index of the last element of s called name, 0 if there is none
LastIndexByName(s, name) ==
    LET S == {k \in 1..Len(s) : s[k].name = name}
    IN  IF S = {} THEN 0 ELSE CHOOSE k \in S : \A j \in S : j <= k

\* the saved prizes after "existing_prize.quantity = prize.quantity ..." for
\* the working prizes that pass the filter keep: a working prize updates the
\* first saved prize of its name, the last such working prize wins
UpdatedSavedPrizes(saved, working, keep(_)) ==
    [j \in 1..Len(saved) |->
        LET w == LastIndexByName(SelectSeq(working, keep), saved[j].name)
        IN  IF w # 0 /\ IndexByName(saved, saved[j].name) = j
            THEN [saved[j] EXCEPT
                     !.quantity = SelectSeq(working, keep)[w].quantity,
                     !.is_special = SelectSeq(working, keep)[w].is_special,
                     !.top_winners = SelectSeq(working, keep)[w].top_winners]
            ELSE saved[j]]

\* the saved participants after "existing_participant.damage = ..."
UpdatedSavedParticipants(saved, working, keep(_)) ==
    [j \in 1..Len(saved) |->
        LET w == LastIndexByName(SelectSeq(working, keep), saved[j].name)
        IN  IF w # 0 /\ IndexByName(saved, saved[j].name) = j
            THEN [saved[j] EXCEPT
                     !.damage = SelectSeq(working, keep)[w].damage,
                     !.enabled = SelectSeq(working, keep)[w].enabled]
            ELSE saved[j]]

\* lines 4838-4850 and 4866-4876: a working element whose name the saved
\* state does not hold is given the id max_id + 1
Renumbered(working, saved) ==
    [k \in 1..Len(working) |->
        IF IndexByName(saved, working[k].name) # 0
        THEN working[k]
        ELSE [working[k] EXCEPT !.id = MaxIdOf(saved) + 1]]

\* lines 4852-4863 and 4878-4888: the saved elements whose names the working
\* list did not hold are appended, numbered from the next id
RECURSIVE WithMissing(_, _, _, _, _)
WithMissing(working, created, next_id, saved, existing_names) ==
    IF saved = <<>>
    THEN [list |-> working, created |-> created, next_id |-> next_id]
    ELSE IF Head(saved).name \in existing_names
    THEN WithMissing(working, created, next_id, Tail(saved), existing_names)
    ELSE WithMissing(Append(working, [Head(saved) EXCEPT !.id = next_id]),
                     Append(created, next_id), next_id + 1, Tail(saved),
                     existing_names)

\* saved_states with the state at idx replaced by st
Replaced(idx, st) == [saved_states EXCEPT ![idx] = st]

\* saved_states without the state at idx
Removed(idx) == Keep(saved_states, (1..Len(saved_states)) \ {idx})

NotHashQuantity(pz) == pz.quantity # Hash
NotHashDamage(p) == p.damage # Hash
Every(x) == TRUE

\* the incomplete-load branch (4830-4894), confirmed: the saved state takes
\* the fields of the working elements it holds, the other working elements
\* are renumbered, the saved elements missing are appended
MergeSavedState(idx) ==
    LET st == saved_states[idx]
        saved_prizes == UpdatedSavedPrizes(st.prizes, prizes, Every)
        saved_participants ==
            UpdatedSavedParticipants(st.participants, participants, Every)
        pz == WithMissing(Renumbered(prizes, st.prizes), prize_created,
                          next_prize_id, saved_prizes, NamesOf(prizes))
        ps == WithMissing(Renumbered(participants, st.participants),
                          participant_created, next_participant_id,
                          saved_participants, NamesOf(participants))
    IN  [outcome |-> Outcome("update_merged", idx),
         saved_states |->
             Replaced(idx, [st EXCEPT !.prizes = saved_prizes,
                                      !.participants = saved_participants]),
         prizes |-> pz.list, prize_created |-> pz.created,
         next_prize_id |-> pz.next_id,
         participants |-> ps.list, participant_created |-> ps.created,
         next_participant_id |-> ps.next_id]

\* the working lists and counters as they are, with other saved states
Keeping(states, kind) ==
    [outcome |-> Outcome(kind, 0),
     saved_states |-> states,
     prizes |-> prizes, prize_created |-> prize_created,
     next_prize_id |-> next_prize_id,
     participants |-> participants,
     participant_created |-> participant_created,
     next_participant_id |-> next_participant_id]

\* lines 5005-5039: the distributions the update stores, by prize id; the
\* winners of a special prize are here the participants of highest damage,
\* and an integer quantity is at least 1
UpdateActive(st) ==
    ActiveParticipants(IF participants # <<>> THEN participants
                       ELSE st.participants)

UpdateDistributionOf(pz, st) ==
    LET total_damage == SumDamage(UpdateActive(st))
        among == IF pz.is_special
                 THEN Take(SortByDamageDesc(UpdateActive(st)), pz.top_winners)
                 ELSE UpdateActive(st)
        among_total == IF pz.is_special THEN SumDamage(among)
                       ELSE total_damage
    IN  [k \in 1..Len(among) |->
            LET exact == Share(among[k], among_total, pz.quantity)
            IN  <<among[k].name,
                  IF integer_only
                  THEN FromInt(IF PyRound(exact) < 1 THEN 1 ELSE PyRound(exact))
                  ELSE exact>>]

\* some distribution is computed: there are active participants of positive
\* total damage
UpdateComputes(st) ==
    UpdateActive(st) # <<>> /\ RatLess(Zero, SumDamage(UpdateActive(st)))

\* prize.quantity * ratio raises TypeError for the quantity '#'
UpdateDistributionsRaise(st) ==
    UpdateComputes(st) /\ \E k \in 1..Len(prizes) : prizes[k].quantity = Hash

UpdateDistributions(st) ==
    IF UpdateComputes(st)
    THEN [prize_id \in {prizes[k].id : k \in 1..Len(prizes)} |->
             UpdateDistributionOf(prizes[LastIndexById(prizes, prize_id)], st)]
    ELSE <<>>

\* validate_and_update of the options dialog: the dates are valid and no
\* other saved state of the new name overlaps them
OptionsAccepted(idx, new_fields, new_name) ==
    /\ new_fields.start_month # 0
    /\ IsValid(new_fields)
    /\ new_name # saved_states[idx].event =>
           ~\E k \in 1..Len(saved_states) :
                /\ k # idx
                /\ saved_states[k].event = new_name
                /\ Overlaps(new_fields, saved_states[k].date_range)

\* the SavedState the update builds (5295-5304) from the working lists, or
\* from the lists of the saved state st for a working list that is empty,
\* with the dates and the name opt the options dialog leaves
UpdatedState(st, opt) ==
    SavedState(opt[1], opt[2],
               IF prizes # <<>> THEN prizes ELSE st.prizes,
               IF participants # <<>> THEN participants ELSE st.participants,
               IF prizes # <<>> THEN UpdateDistributions(st)
               ELSE st.distributions,
               SumDamage(IF participants # <<>> THEN participants
                         ELSE st.participants))

\* the outcomes of the branch that saves (4905-5343) for the state at idx,
\* one for each way through its dialogs, exceptions and file write
UpdateOutcomes(idx, event_name) ==
    LET st == saved_states[idx]
        all_prizes_hash ==
            prizes # <<>> /\ SelectSeq(prizes, NotHashQuantity) = <<>>
        st1 == IF prizes # <<>>
               THEN [st EXCEPT !.prizes =
                        UpdatedSavedPrizes(st.prizes, prizes, NotHashQuantity)]
               ELSE st
        all_participants_hash ==
            participants # <<>>
                /\ SelectSeq(participants, NotHashDamage) = <<>>
        st2 == IF participants # <<>>
               THEN [st1 EXCEPT !.participants =
                        UpdatedSavedParticipants(st1.participants,
                                                 participants, NotHashDamage)]
               ELSE st1
    IN  IF all_prizes_hash
        THEN {Keeping(Removed(idx), "update_removed"),
              Keeping(saved_states, "update_left")}
        ELSE IF all_participants_hash
        THEN {Keeping(Removed(idx), "update_removed"),
              Keeping(Replaced(idx, st1), "update_left")}
        ELSE IF prizes = <<>> /\ participants = <<>>
        THEN {Keeping(saved_states, "update_left")}
        ELSE {Keeping(Replaced(idx, st2), "update_left")}
             \cup
             IF (prizes # <<>> /\ UpdateDistributionsRaise(st2)) \/ SumRaises(
                    IF participants # <<>> THEN participants
                    ELSE st2.participants)
             THEN {}
             ELSE {IF HistoryRaises(Replaced(idx, UpdatedState(st2, opt)))
                   THEN Keeping(Replaced(idx, UpdatedState(st2, opt)),
                                "update_error")
                   ELSE [outcome |-> Outcome("update_stored", idx),
                         saved_states |->
                             Replaced(idx, UpdatedState(st2, opt)),
                         prizes |-> <<>>, prize_created |-> <<>>,
                         next_prize_id |-> 1,
                         participants |-> <<>>, participant_created |-> <<>>,
                         next_participant_id |-> 1] :
                      opt \in
                          {o \in ({st.date_range} \cup DateFields)
                                     \X EventNames :
                              \/ o[1] = st.date_range /\ o[2] = event_name
                              \/ OptionsAccepted(idx, o[1], o[2])}}

\* update_current_state
UpdateCurrentState ==
    /\ Handler
    /\ \E event_name \in EventNames : \E fields \in DateFields :
       \E idx \in {ExistingIndex(event_name, fields)} :
           /\ idx # 0
           /\ \E o \in IF \/ NamesOf(saved_states[idx].participants)
                                \ NamesOf(participants) # {}
                          \/ NamesOf(saved_states[idx].prizes)
                                \ NamesOf(prizes) # {}
                       THEN {MergeSavedState(idx)}
                       ELSE UpdateOutcomes(idx, event_name) :
                  /\ o.next_prize_id <= MaxId + 1
                  /\ o.next_participant_id <= MaxId + 1
                  /\ outcome' = o.outcome
                  /\ saved_states' = o.saved_states
                  /\ prizes' = o.prizes
                  /\ prize_created' = o.prize_created
                  /\ next_prize_id' = o.next_prize_id
                  /\ participants' = o.participants
                  /\ participant_created' = o.participant_created
                  /\ next_participant_id' = o.next_participant_id
                  /\ <<saved_states', prizes', participants',
                       next_prize_id', next_participant_id'>>
                         # <<saved_states, prizes, participants,
                              next_prize_id, next_participant_id>>
    /\ UNCHANGED <<integer_only, call_log>>

\* ----------------------------------------------------------- specification
\* the application as __init__ leaves it, with an empty data folder
AppInit ==
    /\ participants = <<>>
    /\ prizes = <<>>
    /\ next_prize_id = 1
    /\ next_participant_id = 1
    /\ saved_states = <<>>
    /\ integer_only = TRUE
    /\ participant_created = <<>>
    /\ prize_created = <<>>
    /\ call_log = <<>>
    /\ ops = 0
    /\ outcome = NoOutcome
    /\ prize = NoPrize
    /\ pc = "ready"
    /\ shares = <<>>
    /\ diff = 0
    /\ i = 0
    /\ result = <<>>
    /\ ret = "none"
    /\ int_ret = "none"
    /\ exc = "none"
    /\ escaped = FALSE

AppNext ==
    \/ AddParticipants
    \/ AddPrizes
    \/ EditParticipant
    \/ EditPrize
    \/ ToggleParticipant
    \/ DeleteParticipant
    \/ DeletePrize
    \/ ClearPrizes
    \/ ClearParticipants
    \/ NewState
    \/ PerformRestore
    \/ SaveCurrentState
    \/ UpdateCurrentState
    \/ UpdateDistribution
    \/ CalculateDistribution
    \/ IntegerDecrement
    \/ IntegerIncrement
    \/ IntegerReturn

AppSpec == AppInit /\ [][AppNext]_vars

\* ------------------------------------------------------- the data folder
\* a state file an earlier session has written with save_current_state: one
\* prize, one participant that is disabled (every distribution is empty, so
\* the save went through), a one-month range
StoredState(event, month) ==
    SavedState(DateRange(month, 0), event,
               <<Prize(1, "Gem", FromInt(1), FALSE, 1)>>,
               <<Participant(1, "Ann", FromInt(1), FALSE)>>,
               [prize_id \in {1} |-> <<>>], FromInt(1))

StoredStates == {StoredState(event, month) :
                    event \in EventNames, month \in 1..MaxMonth}

\* no two states of the list have the same event name and overlapping dates
NoCollision(states) ==
    \A j \in 1..Len(states) : \A k \in 1..Len(states) :
        (j # k /\ states[j].event = states[k].event)
            => ~Overlaps(states[j].date_range, states[k].date_range)

\* the lists load_saved_states can read at start-up: up to MaxFiles state
\* files of different months, in the order of their names (a file name
\* begins with the dates), no two of them colliding
DataFolders ==
    {f \in UNION {[1..n -> StoredStates] : n \in 0..MaxFiles} :
        /\ NoCollision(f)
        /\ \A k \in 1..(Len(f) - 1) :
               f[k].date_range.start_month < f[k + 1].date_range.start_month}

\* __init__ with a data folder that holds state files; ops starts short of
\* MaxOps, the session runs MaxFolderOps handlers at most
FolderInit ==
    /\ saved_states \in DataFolders
    /\ participants = <<>>
    /\ prizes = <<>>
    /\ next_prize_id = 1
    /\ next_participant_id = 1
    /\ integer_only = TRUE
    /\ participant_created = <<>>
    /\ prize_created = <<>>
    /\ call_log = <<>>
    /\ ops = MaxOps - MaxFolderOps
    /\ outcome = NoOutcome
    /\ prize = NoPrize
    /\ pc = "ready"
    /\ shares = <<>>
    /\ diff = 0
    /\ i = 0
    /\ result = <<>>
    /\ ret = "none"
    /\ int_ret = "none"
    /\ exc = "none"
    /\ escaped = FALSE

\* the handlers that add, edit, delete, clear, save and update
FolderNext ==
    \/ AddParticipants
    \/ AddPrizes
    \/ EditParticipant
    \/ EditPrize
    \/ DeleteParticipant
    \/ DeletePrize
    \/ ClearPrizes
    \/ ClearParticipants
    \/ SaveCurrentState
    \/ UpdateCurrentState

FolderSpec == FolderInit /\ [][FolderNext]_vars

\* ==================================================================== claims
\* The vocabulary of the claims, stated without the operators of the model.
Done == pc = "done"

\* a participant takes part: enabled, and the weight is not the '#' marker
Eligible(p) == p.enabled /\ p.damage # Hash

\* the roster positions of the eligible participants
EligiblePositions == {k \in 1..Len(participants) : Eligible(participants[k])}

\* the roster position of the participant an entry of the result names
\* (names are distinct within a roster)
PosOf(entry) ==
    CHOOSE k \in 1..Len(participants) : participants[k].name = entry[2]

ResultPositions == {PosOf(result[j]) : j \in 1..Len(result)}

\* the total weight of the participants at the positions S, all eligible
RECURSIVE WeightUpTo(_, _)
WeightUpTo(S, k) ==
    IF k = 0 THEN Zero
    ELSE RatAdd(IF k \in S THEN participants[k].damage ELSE Zero,
                WeightUpTo(S, k - 1))

WeightOf(S) == WeightUpTo(S, Len(participants))

\* the sum of the quantities of the result
RECURSIVE QtySumUpTo(_)
QtySumUpTo(j) ==
    IF j = 0 THEN Zero ELSE RatAdd(result[j][3], QtySumUpTo(j - 1))

QtySum == QtySumUpTo(Len(result))

Min(a, b) == IF a < b THEN a ELSE b

\* x rounded to the nearest integer, a tie to the higher one
RoundHalfUp(x) == (2 * x.n + x.d) \div (2 * x.d)

\* -------------------------------------------------------------------- C1
\* C1 (as claimed): in integer mode, for a prize of positive quantity and a
\* roster whose eligible participants have positive total weight, the
\* quantities of the result sum to round(prize.quantity), also when the
\* quantity is not a whole number.  It is stated in the form most
\* favourable to the claim: for the results that are not empty (the empty
\* results of a special prize are the matter of C8), and with round read
\* either way at a tie (to the higher integer, or as Python's round does).
C1_IntegerConservation ==
    (Done /\ integer_only /\ prize.quantity # Hash
          /\ RatLess(Zero, WeightOf(EligiblePositions))
          /\ result # <<>>)
        => \/ QtySum = FromInt(RoundHalfUp(prize.quantity))
           \/ QtySum = FromInt(PyRound(prize.quantity))

\* -------------------------------------------------------------------- C2
\* C2: in real mode every entry of the result satisfies
\* allocated * total_weight = prize.quantity * weight, total_weight being
\* the sum of the weights of the participants in the result, and the
\* allocations sum to prize.quantity.
C2_RealProportionality ==
    (Done /\ ~integer_only /\ result # <<>>)
        => /\ \A j \in 1..Len(result) :
                RatMul(result[j][3], WeightOf(ResultPositions))
                    = RatMul(prize.quantity, participants[PosOf(result[j])].damage)
           /\ QtySum = prize.quantity

\* a special prize in real mode whose winners are some of the eligible
\* participants and receive different quantities
C2_Witness ==
    /\ Done /\ ~integer_only /\ prize.is_special
    /\ Len(result) >= 2
    /\ result[1][3] # result[2][3]
    /\ ResultPositions # EligiblePositions

\* -------------------------------------------------------------------- C3
\* C3: no quantity of the result is negative, in real and in integer mode,
\* and no share is negative at any step of the integer correction loop (a
\* decrement applied to a share of 0 would leave -1).
C3_NonNegative ==
    /\ pc = "int_loop" => \A k \in 1..Len(shares) : shares[k].share >= 0
    /\ Done => \A j \in 1..Len(result) : result[j][3].n >= 0

\* inside the decrement loop, after a decrement, beside a share of 0
C3_Witness ==
    /\ pc = "int_loop" /\ diff > 0 /\ i >= 1
    /\ \E k \in 1..Len(shares) : shares[k].share = 0

\* -------------------------------------------------------------------- C4
\* the result holds exactly m participants, all eligible, each under its own
\* id, and no eligible participant left out has a lower id than one taken
SelectedLowest(m) ==
    /\ Len(result) = m
    /\ Cardinality(ResultPositions) = m
    /\ ResultPositions \subseteq EligiblePositions
    /\ \A j \in 1..Len(result) : result[j][1] = participants[PosOf(result[j])].id
    /\ \A r \in ResultPositions : \A e \in EligiblePositions \ ResultPositions :
            participants[r].id <= participants[e].id

\* the sets of min(N, E) eligible positions with the lowest ids (one set when
\* the ids are distinct)
LowestSets(m) ==
    {S \in SUBSET EligiblePositions :
        /\ Cardinality(S) = m
        /\ \A r \in S : \A e \in EligiblePositions \ S :
                participants[r].id <= participants[e].id}

\* C4 (as claimed): for a special prize with top_winners = N the result
\* holds exactly the min(N, E) eligible participants with the lowest ids, E
\* being the number of eligible participants.  It is stated for the case
\* most favourable to the claim: the quantity is a number and the eligible
\* participants have positive total weight.
C4_SpecialSelection_AsClaimed ==
    (Done /\ prize.is_special /\ prize.quantity # Hash
          /\ RatLess(Zero, WeightOf(EligiblePositions)))
        => SelectedLowest(Min(prize.top_winners, Cardinality(EligiblePositions)))

\* C4 (amended): for a special prize with top_winners = N, a result that is
\* not empty holds exactly the min(N, E) eligible participants with the
\* lowest ids, whatever their weights; the result is empty only when the
\* quantity is '#', nobody is eligible, or the min(N, E) lowest-id eligible
\* participants have total weight 0.
C4_SpecialSelection ==
    (Done /\ prize.is_special)
        => LET m == Min(prize.top_winners, Cardinality(EligiblePositions))
           IN  IF result # <<>>
               THEN SelectedLowest(m)
               ELSE \/ prize.quantity = Hash
                    \/ EligiblePositions = {}
                    \/ \E S \in LowestSets(m) : WeightOf(S) = Zero

\* a special prize taking some of the eligible participants: one left out
\* weighs more than one taken, and stands earlier in the roster
C4_Witness ==
    /\ Done /\ prize.is_special /\ result # <<>>
    /\ \E r \in ResultPositions : \E e \in EligiblePositions \ ResultPositions :
            /\ RatLess(participants[r].damage, participants[e].damage)
            /\ e < r

\* -------------------------------------------------------------------- C5
\* the roster without the participant at position k
RemoveAt(ps, k) == SubSeq(ps, 1, k - 1) \o SubSeq(ps, k + 1, Len(ps))

\* C5: a participant that is disabled or whose weight is '#' does not appear
\* in the result, and the result is the one calculate_distribution returns
\* for the roster without that participant.
C5_EligibilityFilter ==
    Done =>
        \A k \in 1..Len(participants) :
            ~Eligible(participants[k]) =>
                /\ k \notin ResultPositions
                /\ result = Distribute(RemoveAt(participants, k), prize,
                                       integer_only)

\* a result that is not empty, of a roster holding a disabled participant
\* with a positive weight and a participant marked '#'
C5_Witness ==
    /\ Done /\ result # <<>>
    /\ \E k \in 1..Len(participants) :
            /\ ~participants[k].enabled
            /\ participants[k].damage # Hash
            /\ RatLess(Zero, participants[k].damage)
    /\ \E k \in 1..Len(participants) : participants[k].damage = Hash

\* -------------------------------------------------------------------- C6
\* C6: when the roster is empty or holds no eligible participant, the result
\* is the empty list, for every prize and in both modes.
C6_EmptyInput ==
    (Done /\ EligiblePositions = {}) => result = <<>>

\* a roster of two participants, none eligible, one of them disabled with a
\* positive weight
C6_Witness ==
    /\ Done /\ EligiblePositions = {} /\ Len(participants) >= 2
    /\ \E k \in 1..Len(participants) :
            /\ participants[k].damage # Hash
            /\ RatLess(Zero, participants[k].damage)

\* -------------------------------------------------------------------- C7
\* C7: when some participant is eligible and every eligible weight is 0, the
\* call returns the empty list through the total-weight guard (line 3579),
\* in both modes, and no exception (no division by zero) was raised.
C7_ZeroTotalWeight ==
    (Done /\ EligiblePositions # {} /\ WeightOf(EligiblePositions) = Zero)
        => /\ result = <<>>
           /\ ret = "zero_total"
           /\ exc = "none"
           /\ int_ret = "none"

\* two eligible participants of weight 0, in integer mode
C7_Witness ==
    /\ Done /\ integer_only
    /\ Cardinality(EligiblePositions) >= 2
    /\ WeightOf(EligiblePositions) = Zero

\* -------------------------------------------------------------------- C8
\* the number of participants the prize is distributed among: the eligible
\* ones, the first top_winners of them for a special prize
ExpectedLength ==
    IF prize.is_special
    THEN Min(prize.top_winners, Cardinality(EligiblePositions))
    ELSE Cardinality(EligiblePositions)

\* C8 (as claimed): whenever the eligible participants have positive total
\* weight, the result has as many entries as there are eligible participants
\* (normal prize) or selected winners (special prize), also when the
\* selected winners have total weight 0.  Stated for a quantity that is a
\* number.
C8_ResultLength_AsClaimed ==
    (Done /\ prize.quantity # Hash
          /\ RatLess(Zero, WeightOf(EligiblePositions)))
        => Len(result) = ExpectedLength

\* C8 (amended): whenever the quantity is a number and the participants in
\* the result would have positive total weight (the eligible ones for a
\* normal prize, the selected winners for a special prize), the result has
\* as many entries as there are such participants; when the selected
\* winners of a special prize have total weight 0 the result is empty.
C8_ResultLength ==
    (Done /\ prize.quantity # Hash
          /\ RatLess(Zero, WeightOf(EligiblePositions)))
        => \/ /\ Len(result) = ExpectedLength
              /\ RatLess(Zero, WeightOf(ResultPositions))
           \/ /\ result = <<>>
              /\ prize.is_special
              /\ \E S \in LowestSets(ExpectedLength) : WeightOf(S) = Zero

\* a special prize distributed among two winners while three participants
\* are eligible
C8_Witness ==
    /\ Done /\ prize.is_special
    /\ Len(result) = 2
    /\ Cardinality(EligiblePositions) = 3

\* -------------------------------------------------------------------- C9
\* C9 (as claimed): the result is strictly ascending by participant id, for
\* a normal and for a special prize, in real and in integer mode.
C9_StrictlyAscending ==
    Done => \A j \in 1..(Len(result) - 1) : result[j][1] < result[j + 1][1]

\* -------------------------------------------------------------------- C10
\* C10: no exception leaves calculate_distribution; it returns a list, the
\* empty one when the quantity is '#' and when the selected winners of a
\* special prize all have weight 0.
C10_NoFaultEscapes ==
    Done =>
        /\ ~escaped
        /\ ret \in {"no_active", "zero_total", "data", "except"}
        /\ prize.quantity = Hash => result = <<>>
        /\ exc # "none" => result = <<>>
        /\ (prize.is_special /\ result # <<>>)
              => RatLess(Zero, WeightOf(ResultPositions))

\* the division by a zero winner total was raised and caught
C10_Witness ==
    /\ Done /\ prize.is_special /\ ~integer_only
    /\ exc = "ZeroDivisionError"
    /\ ret = "except"
    /\ result = <<>>

\* -------------------------------------------------------------------- C13
\* j stands before k when the participants are taken by ascending id, those
\* of equal id in roster order
Precedes(j, k) ==
    \/ participants[j].id < participants[k].id
    \/ participants[j].id = participants[k].id /\ j < k

\* the eligible participants that top_winners eligible participants of
\* lower id keep out of a special prize
NonWinnerPositions ==
    {k \in EligiblePositions :
        Cardinality({j \in EligiblePositions : Precedes(j, k)})
            >= prize.top_winners}

\* C13: for a special prize the result does not depend on the eligible
\* participants outside the N of lowest id: it is the result of the roster
\* in which such a participant has any other weight, and of the roster
\* without that participant, in both modes.
C13_SpecialIndependence ==
    (Done /\ prize.is_special) =>
        \A k \in NonWinnerPositions :
            /\ \A d \in 0..MaxDamage :
                   result = Distribute(
                                [participants EXCEPT ![k].damage = FromInt(d)],
                                prize, integer_only)
            /\ result = Distribute(RemoveAt(participants, k), prize,
                                   integer_only)

\* a special prize shared by two winners while a third eligible participant,
\* of positive weight, is left out
C13_Witness ==
    /\ Done /\ prize.is_special /\ Len(result) = 2
    /\ result[1][3] # result[2][3]
    /\ \E k \in NonWinnerPositions : RatLess(Zero, participants[k].damage)

\* -------------------------------------------------------------------- C16
\* some participant is eligible, and the eligible participants all have the
\* same positive weight
EqualPositiveWeights ==
    /\ EligiblePositions # {}
    /\ \A j \in EligiblePositions : \A k \in EligiblePositions :
            participants[j].damage = participants[k].damage
    /\ \A k \in EligiblePositions : RatLess(Zero, participants[k].damage)

IsWhole(x) == x.d = 1

\* C16: in integer mode, a whole quantity Q distributed among n participants
\* of equal positive weight gives each of them Q div n or Q div n + 1, and
\* exactly Q mod n of them receive the larger value.
C16_EqualWeights ==
    (Done /\ integer_only /\ prize.quantity # Hash /\ IsWhole(prize.quantity)
          /\ EqualPositiveWeights)
        => LET n == ExpectedLength
               Q == prize.quantity.n
           IN  /\ Len(result) = n
               /\ \A j \in 1..Len(result) :
                      \/ result[j][3] = FromInt(Q \div n)
                      \/ result[j][3] = FromInt(Q \div n + 1)
               /\ Cardinality({j \in 1..Len(result) :
                                   result[j][3] = FromInt(Q \div n + 1)})
                      = Q % n

\* quantity 4 among three participants of equal weight: one of them has 2
C16_Witness ==
    /\ Done /\ integer_only /\ ~prize.is_special
    /\ prize.quantity = FromInt(4)
    /\ EqualPositiveWeights
    /\ Cardinality(EligiblePositions) = 3
    /\ Len(result) = 3

\* -------------------------------------------------------------------- C17
\* the participants the prize is distributed among
DistributedPositions ==
    IF prize.is_special
    THEN EligiblePositions \ NonWinnerPositions
    ELSE EligiblePositions

\* quantity * weight / total_weight of the participant at position k
ExactShareAt(k) ==
    RatDiv(RatMul(prize.quantity, participants[k].damage),
           WeightOf(DistributedPositions))

\* every exact share is a whole number
ExactSharesWhole ==
    /\ prize.quantity # Hash
    /\ RatLess(Zero, WeightOf(DistributedPositions))
    /\ \A k \in DistributedPositions : IsWhole(ExactShareAt(k))

\* the roster position of the participant of a share
SharePos(k) ==
    CHOOSE r \in 1..Len(participants) : participants[r].name = shares[k].p.name

\* C17: in integer mode, when the exact share of every participant is a
\* whole number, diff is 0, no correction step runs, and every participant
\* is allocated the exact share.
C17_ExactShares ==
    (integer_only /\ ExactSharesWhole) =>
        /\ pc = "int_loop" =>
              /\ diff = 0 /\ i = 0
              /\ \A k \in 1..Len(shares) :
                     FromInt(shares[k].share) = ExactShareAt(SharePos(k))
        /\ Done =>
              /\ diff = 0 /\ i = 0
              /\ ResultPositions = DistributedPositions
              /\ \A j \in 1..Len(result) :
                     result[j][3] = ExactShareAt(PosOf(result[j]))

\* whole exact shares that differ: quantity 3 to the weights 2 and 1
C17_Witness ==
    /\ Done /\ integer_only /\ ExactSharesWhole
    /\ Len(result) >= 2
    /\ result[1][3] # result[2][3]
    /\ \A j \in 1..Len(result) : RatLess(Zero, result[j][3])

\* -------------------------------------------------------------------- C18
\* C18 (as claimed): before any correction step, the integer share of every
\* participant is the exact share rounded half up, so that an exact share
\* with fractional part 0.5 is assigned the next higher integer.
C18_RoundHalfUp ==
    (pc = "int_loop" /\ i = 0) =>
        \A k \in 1..Len(shares) :
            shares[k].share = RoundHalfUp(shares[k].exact)

\* -------------------------------------------------------------------- C19
\* abs((share - 1) - exact share) of the share k
LossAt(k) == RatAbs(RatSub(FromInt(shares[k].share - 1), shares[k].exact))

\* the shares stand by descending weight, equal weights in roster order
SharesByWeightThenRoster ==
    \A a \in 1..Len(shares) : \A b \in 1..Len(shares) :
        a < b =>
            \/ RatLess(shares[b].p.damage, shares[a].p.damage)
            \/ /\ shares[b].p.damage = shares[a].p.damage
               /\ SharePos(a) < SharePos(b)

\* C19 (as claimed): when the first shares sum to diff > 0 more than the
\* target, exactly diff decrements of 1 are performed; each scans the
\* participants by descending weight, equal weights in roster order, and
\* takes 1 from the first participant, among those whose share is > 0, that
\* minimises abs((share - 1) - exact share).
C19_OverAssignment ==
    [][(pc = "int_loop" /\ diff > 0) =>
          /\ SharesByWeightThenRoster
          /\ pc' = "done" => i = diff
          /\ pc' = "int_loop" =>
                /\ i < diff
                /\ i' = i + 1
                /\ \E k \in 1..Len(shares) :
                      /\ shares[k].share > 0
                      /\ \A j \in 1..Len(shares) :
                            shares[j].share > 0 =>
                                ~RatLess(LossAt(j), LossAt(k))
                      /\ \A j \in 1..(k - 1) :
                            shares[j].share > 0 =>
                                RatLess(LossAt(k), LossAt(j))
                      /\ shares' = [shares EXCEPT ![k].share = @ - 1]]_vars

\* -------------------------------------------------------------------- C20
\* abs((share + 1) - exact share) of the share k
GainAt(k) == RatAbs(RatSub(FromInt(shares[k].share + 1), shares[k].exact))

\* the shares stand by descending weight
SharesByWeight ==
    \A a \in 1..Len(shares) : \A b \in 1..Len(shares) :
        a < b => ~RatLess(shares[a].p.damage, shares[b].p.damage)

\* C20: when the first shares sum to -diff less than the target, exactly
\* -diff increments of 1 are performed; each scans the participants by
\* descending weight and gives 1 to the first participant that minimises
\* abs((share + 1) - exact share); every participant is a candidate, one
\* with share 0 included, and no share is too large to be incremented.
C20_UnderAssignment ==
    [][(pc = "int_loop" /\ diff < 0) =>
          /\ SharesByWeight
          /\ pc' = "done" => i = -diff
          /\ pc' = "int_loop" =>
                /\ i < -diff
                /\ i' = i + 1
                /\ \E k \in 1..Len(shares) :
                      /\ \A j \in 1..Len(shares) :
                            ~RatLess(GainAt(j), GainAt(k))
                      /\ \A j \in 1..(k - 1) : RatLess(GainAt(k), GainAt(j))
                      /\ shares' = [shares EXCEPT ![k].share = @ + 1]]_vars

\* after an increment given, among participants of equal exact share below
\* 1/2, to the first of them, whose share was 0
C20_Witness ==
    /\ pc = "int_loop" /\ diff < 0 /\ i = 1
    /\ Len(shares) >= 2
    /\ shares[1].share = 1 /\ shares[2].share = 0
    /\ shares[1].exact = shares[2].exact
    /\ RatLess(shares[1].exact, Rat(1, 2))

\* ---------------------------------------------------------------- C11, C12
\* the calls logged at positions a and b had the same prize, the same roster
\* in the same order and the same integer-mode flag
SameInputs(a, b) ==
    /\ call_log[a].participants = call_log[b].participants
    /\ call_log[a].prize = call_log[b].prize
    /\ call_log[a].integer_only = call_log[b].integer_only

C12_Purity ==
    [][(pc \in {"idle", "int_loop"}) =>
          UNCHANGED <<participants, prizes, next_prize_id,
                      next_participant_id, saved_states>>]_vars

\* a call has returned a list for a roster holding a participant that is
\* not active, while a state is saved
C12_Witness ==
    /\ pc = "done"
    /\ result # <<>>
    /\ saved_states # <<>>
    /\ \E k \in 1..Len(participants) : ~IsActive(participants[k])

\* ---------------------------------------------------------------- C14, C15
\* C14 (as claimed): every participant of the roster and every prize of the
\* prize list bears the id it was created with: no handler has changed it.
C14_IdStability ==
    /\ \A k \in 1..Len(participants) :
           participants[k].id = participant_created[k]
    /\ \A k \in 1..Len(prizes) : prizes[k].id = prize_created[k]

\* the ids of a list are positive and pairwise distinct
DistinctPositiveIds(s) ==
    /\ \A k \in 1..Len(s) : s[k].id >= 1
    /\ \A j \in 1..Len(s) : \A k \in 1..Len(s) :
           j # k => s[j].id # s[k].id

\* C15 (as claimed): no two participants of the working roster share an id,
\* no two prizes of the working prize list share an id, and every id is a
\* positive integer.
C15_IdUniqueness ==
    /\ DistinctPositiveIds(participants)
    /\ DistinctPositiveIds(prizes)

\* -------------------------------------------------------------------- C22
\* a step of the correction loop can be taken
LoopCanStep ==
    ENABLED <<IntegerDecrement \/ IntegerIncrement \/ IntegerReturn>>_vars

\* C22: every call of calculate_distribution terminates, and in integer
\* mode the number of correction iterations, abs(diff), is never more than
\* the number of participants passed to calculate_integer_distribution,
\* for a whole and for a fractional quantity.  Termination is stated by a
\* variant: the call has an outcome, every step of it either ends it or
\* moves the loop counter i one step towards abs(diff), which it never
\* exceeds, and the loop can take a step as long as the call has not ended.
C22_Termination ==
    /\ [](pc = "idle" =>
             Call(participants, prize, integer_only).kind
                 \in {"return", "loop"})
    /\ [](pc = "int_loop" =>
             /\ Abs(diff) <= Len(shares)
             /\ i <= Abs(diff)
             /\ LoopCanStep)
    /\ [][\/ pc = "idle" /\ pc' = "done"
          \/ pc = "idle" /\ pc' = "int_loop" /\ i' = 0
          \/ pc = "int_loop" /\ pc' = "int_loop"
                /\ i' = i + 1 /\ diff' = diff
          \/ pc = "int_loop" /\ pc' = "done" /\ i = Abs(diff)]_vars

\* the correction loop has run as many iterations as there are
\* participants, for a fractional quantity
C22_Witness ==
    /\ pc = "int_loop"
    /\ prize.quantity # Hash /\ ~IsWhole(prize.quantity)
    /\ diff # 0
    /\ Abs(diff) = Len(shares)
    /\ i = Abs(diff)

\* -------------------------------------------------------------------- C23
\* integer mode, a whole quantity, and a list returned by the correction
\* loop
WholeIntegerResult ==
    /\ Done /\ integer_only
    /\ prize.quantity # Hash /\ IsWhole(prize.quantity)
    /\ result # <<>>

\* C23: in integer mode with a whole quantity, the allocation of every
\* participant differs from the exact share quantity * weight /
\* total_weight by less than 1, and no participant is corrected more than
\* once: the allocation is within 1 of the share as first rounded.
C23_Quota ==
    WholeIntegerResult =>
        /\ \A j \in 1..Len(result) :
               RatLess(RatAbs(RatSub(result[j][3],
                                     ExactShareAt(PosOf(result[j])))),
                       FromInt(1))
        /\ \A k \in 1..Len(shares) :
               Abs(shares[k].share - PyRound(shares[k].exact)) <= 1

\* a result of two corrections, in which two participants were corrected
\* and another was not
C23_Witness ==
    /\ WholeIntegerResult
    /\ Abs(diff) = 2
    /\ \E k \in 1..Len(shares) :
           shares[k].share # PyRound(shares[k].exact)
    /\ \E k \in 1..Len(shares) :
           shares[k].share = PyRound(shares[k].exact)

\* -------------------------------------------------------------------- C24
\* C24: in integer mode with a whole quantity, of two participants in the
\* result the one of greater weight is allocated at least as much, and two
\* of equal weight are allocated quantities that differ by at most 1.
C24_WeightMonotonicity ==
    WholeIntegerResult =>
        \A a \in 1..Len(result) : \A b \in 1..Len(result) :
            LET wa == participants[PosOf(result[a])].damage
                wb == participants[PosOf(result[b])].damage
            IN  /\ RatLess(wb, wa) => ~RatLess(result[a][3], result[b][3])
                /\ wa = wb =>
                       ~RatLess(FromInt(1),
                                RatAbs(RatSub(result[a][3], result[b][3])))

\* after a correction, two participants of equal weight hold quantities
\* that differ by 1, and two participants differ in weight
C24_Witness ==
    /\ WholeIntegerResult
    /\ diff # 0
    /\ \E a \in 1..Len(result) : \E b \in 1..Len(result) :
           /\ participants[PosOf(result[a])].damage
                  = participants[PosOf(result[b])].damage
           /\ result[a][3] # result[b][3]
    /\ \E a \in 1..Len(result) : \E b \in 1..Len(result) :
           RatLess(participants[PosOf(result[b])].damage,
                   participants[PosOf(result[a])].damage)

\* ------------------------------------------------------------------- C28
\* the roster with the weight of every eligible participant multiplied by c
Scaled(ps, c) ==
    [k \in 1..Len(ps) |->
        IF IsActive(ps[k])
        THEN [ps[k] EXCEPT !.damage = RatMul(FromInt(c), ps[k].damage)]
        ELSE ps[k]]

SaveEnds(kinds) == ops' = ops + 1 /\ outcome'.kind \in kinds

\* the (participant name, quantity) pairs of a list calculate_distribution
\* returns
Pairs(res) == [k \in 1..Len(res) |-> <<res[k][2], res[k][3]>>]

\* C25: when save_current_state runs with an event name of at least 3
\* characters that no saved state uses, a start month, a valid date range
\* and non-empty lists (and the file can be written), it appends exactly one
\* SavedState whose distributions hold, for every prize id, the (name,
\* quantity) pairs of calculate_distribution(prize), and the working lists
\* are empty afterwards - also when a prize has a non-empty distribution.
C25_SuccessfulSave ==
    [][SaveEnds({"saved", "save_error"}) =>
          /\ Len(saved_states') = Len(saved_states) + 1
          /\ SubSeq(saved_states', 1, Len(saved_states)) = saved_states
          /\ \A k \in 1..Len(prizes) :
                 /\ prizes[k].id \in
                        DOMAIN saved_states'[Len(saved_states')].distributions
                 /\ saved_states'[Len(saved_states')]
                        .distributions[prizes[k].id]
                      = Pairs(Distribute(participants, prizes[k],
                                         integer_only))
          /\ prizes' = <<>>
          /\ participants' = <<>>]_vars

\* ------------------------------------------------------------------- C27
\* C27: whenever save_current_state does not complete a save - a validation
\* is rejected or an internal error is caught - saved_states, the working
\* prize list, the working participant list and both next-id counters are
\* exactly as before the call.
C27_SaveFailure ==
    [][SaveEnds({"save_rejected", "save_error", "save_io_error"}) =>
          UNCHANGED <<saved_states, prizes, participants, next_prize_id,
                      next_participant_id>>]_vars

\* ------------------------------------------------------------------- C29
\* no two elements of the list have names equal ignoring case
NamesUniqueIgnoringCase(s) ==
    \A j \in 1..Len(s) : \A k \in 1..Len(s) :
        j # k => Lower(s[j].name) # Lower(s[k].name)

\* C29: after any sequence of add, edit, delete, clear and
\* update_current_state operations that starts from empty lists, no two
\* prizes of the working prize list have names equal ignoring case, and no
\* two participants of the working roster have names equal ignoring case.
C29_NameUniqueness ==
    NamesUniqueIgnoringCase(prizes) /\ NamesUniqueIgnoringCase(participants)

\* ------------------------------------------------------------------- C30
\* C30: starting from a saved_states list in which no two states have the
\* same event name with overlapping date ranges, every sequence of
\* save_current_state and update_current_state operations (renaming the
\* event or changing its dates in the options dialog included) preserves
\* that property.
C30_NoCollidingEvents == NoCollision(saved_states)

\* -------------------------------------------------------------- C21, C26
\* a step of update_current_state that recomputes the distributions of the
\* working prizes and stores them in the saved state
UpdateStores ==
    ops' = ops + 1 /\ outcome'.kind = "update_stored" /\ prizes # <<>>

\* the prize of the working list that alone bears the id
PrizeOfId(prize_id) ==
    {k \in 1..Len(prizes) :
        /\ prizes[k].id = prize_id
        /\ \A j \in 1..Len(prizes) : prizes[j].id = prize_id => j = k}

\* the names of the first n eligible participants of a roster by ascending
\* id
FirstEligibleById(roster, n) ==
    {roster[k].name : k \in
        {k \in 1..Len(roster) :
            /\ Eligible(roster[k])
            /\ Cardinality({j \in 1..Len(roster) :
                               /\ Eligible(roster[j])
                               /\ roster[j].id < roster[k].id}) < n}}

\* the names of a stored distribution, a list of (name, quantity) pairs
StoredNames(dist) == {dist[k][1] : k \in 1..Len(dist)}

RECURSIVE StoredSumUpTo(_, _)
StoredSumUpTo(dist, k) ==
    IF k = 0 THEN Zero ELSE RatAdd(StoredSumUpTo(dist, k - 1), dist[k][2])

\* the sum of the quantities of a stored distribution
StoredSum(dist) == StoredSumUpTo(dist, Len(dist))

\* C21: for the same roster and special prize, the distribution that
\* update_current_state recomputes and stores for the prize has the winners
\* of calculate_distribution: the first top_winners eligible participants
\* by ascending id.
C21_OneSelectionPolicy ==
    [][UpdateStores =>
          \A prize_id \in DOMAIN saved_states'[outcome'.idx].distributions :
              \A k \in PrizeOfId(prize_id) :
                  prizes[k].is_special =>
                      StoredNames(saved_states'[outcome'.idx]
                                      .distributions[prize_id])
                        = FirstEligibleById(
                              saved_states'[outcome'.idx].participants,
                              prizes[k].top_winners)]_vars

\* C26: in integer mode, every distribution that update_current_state
\* recomputes and stores sums to the quantity of its prize, for normal and
\* for special prizes.
C26_StoredConservation ==
    [][(UpdateStores /\ integer_only) =>
          \A prize_id \in DOMAIN saved_states'[outcome'.idx].distributions :
              \A k \in PrizeOfId(prize_id) :
                  StoredSum(saved_states'[outcome'.idx]
                                .distributions[prize_id])
                    = prizes[k].quantity]_vars

====
